---------------------------- MODULE Spec2Model ----------------------------
(***************************************************************************)
(* fsdedup: the scan -> hash-index -> pairwise-dedup pipeline.             *)
(*                                                                         *)
(* A crawler walks the roots and hashes every regular file in fixed-size   *)
(* blocks (scan_file); each ScanResult goes through a bounded channel to   *)
(* the single consumer (main), which keeps the first location seen for     *)
(* every hash and calls dedup(first, current) on every later occurrence.   *)
(*                                                                         *)
(* File contents are run-length encoded byte strings: a sequence of        *)
(* <<byte, count>> runs with count > 0 and no two adjacent runs of the     *)
(* same byte.                                                              *)
(***************************************************************************)
EXTENDS Integers, Sequences, FiniteSets, TLC

\* ------------------------------------------------------------------ bounds
\* Longest list of roots on the command line.
MaxRoots == 2
\* Largest channel capacity tried (capacities 0..MaxQueue).
MaxQueue == 1
\* Size of the rayon pool that runs scan.rs's crawl_paths.
MaxWorkers == 2

\* Capacity of std::io::BufReader's internal buffer (BufReader::new).
DEFAULT_BUF_SIZE == 8192

Min(x, y) == IF x <= y THEN x ELSE y

\* ---------------------------------------------------------- byte strings
RECURSIVE Size(_)
Size(r) == IF r = <<>> THEN 0 ELSE r[1][2] + Size(Tail(r))

RECURSIVE Drop(_, _)
Drop(r, n) ==
    IF n = 0 \/ r = <<>> THEN r
    ELSE IF r[1][2] <= n THEN Drop(Tail(r), n - r[1][2])
    ELSE << <<r[1][1], r[1][2] - n>> >> \o Tail(r)

RECURSIVE Take(_, _)
Take(r, n) ==
    IF n = 0 \/ r = <<>> THEN <<>>
    ELSE IF r[1][2] <= n THEN <<r[1]>> \o Take(Tail(r), n - r[1][2])
    ELSE << <<r[1][1], n>> >>

\* The bytes [start, start + len) of r, cut at the end of r.
Slice(r, start, len) == Take(Drop(r, start), len)

\* Run-length normal form: adjacent runs of one byte joined.
RECURSIVE Merge(_)
Merge(r) ==
    IF Len(r) <= 1 THEN r
    ELSE IF r[1][1] = r[2][1]
         THEN Merge(<< <<r[1][1], r[1][2] + r[2][2]>> >> \o Tail(Tail(r)))
         ELSE <<r[1]>> \o Merge(Tail(r))

\* ------------------------------------------------------------ file system
\* Three paths; "c" is a hardlink of "a". canonicalize() is the identity on
\* them (no symlinks, all absolute).
Paths == {"a", "b", "c"}
PathIno == [p \in Paths |-> IF p = "b" THEN 2 ELSE 1]

\* One directory per path: WalkDir(root) yields the regular files below it.
Roots == {"da", "db", "dc"}
WalkDir(root) ==
    CASE root = "da" -> <<"a">>
      [] root = "db" -> <<"b">>
      [] root = "dc" -> <<"c">>

\* The runs tried: the contents of the two inodes, by inode number, and the
\* block size given with -b.
Setups == {
    \* two files of three blocks, the first two blocks shared
    << << << <<1, 4096>>, <<2, 4096>>, <<3, 4096>> >>,
          << <<1, 4096>>, <<2, 4096>>, <<4, 4096>> >> >>, 4096 >>,
    \* one block each, different bytes with the same hash
    << << << <<1, 4096>> >>, << <<5, 4096>> >> >>, 4096 >>,
    \* an empty file and a short one
    << << <<>>, << <<1, 100>> >> >>, 4096 >>,
    \* a file of two identical blocks, and a file with a short last block
    << << << <<1, 8192>> >>, << <<1, 4096>>, <<2, 100>> >> >>, 4096 >>,
    \* more than one BufReader buffer, read in blocks that do not divide it
    << << << <<1, 9000>> >>, << <<1, 6000>>, <<2, 2192>> >> >>, 3000 >> }

Images == {s[1] : s \in Setups}
BlockSizes == {s[2] : s \in Setups}

\* crc64 of a chunk: not injective. Byte 5 hashes as byte 1 does.
Collide(b) == IF b = 5 THEN 1 ELSE b
crc64(chunk) == Merge([i \in 1..Len(chunk) |-> <<Collide(chunk[i][1]), chunk[i][2]>>])


\* --------------------------------------------------------------- scanning
\* The sizes of the chunks that reader.read(&mut buf) returns, in order, for a
\* file of `size` bytes read through a BufReader with a buffer of block_size
\* bytes: pos is the file position of the inner reader, avail the bytes held
\* in the BufReader and not yet handed out. A read with nothing buffered and
\* a destination at least as large as the internal buffer goes to the file
\* directly; any other read refills the internal buffer when it is empty and
\* hands out what it holds, at most block_size bytes.
RECURSIVE BufReaderReads(_, _, _, _)
BufReaderReads(size, block_size, pos, avail) ==
    IF avail = 0 /\ block_size >= DEFAULT_BUF_SIZE
    THEN LET n == Min(block_size, size - pos)
         IN  IF n = 0 THEN <<>>
             ELSE <<n>> \o BufReaderReads(size, block_size, pos + n, 0)
    ELSE LET fill == IF avail = 0 THEN Min(DEFAULT_BUF_SIZE, size - pos) ELSE 0
             have == avail + fill
             n    == Min(block_size, have)
         IN  IF n = 0 THEN <<>>
             ELSE <<n>> \o BufReaderReads(size, block_size, pos + fill, have - n)

RECURSIVE SumTo(_, _)
SumTo(s, k) == IF k = 0 THEN 0 ELSE s[k] + SumTo(s, k - 1)

\* A loop that hashes the chunk before it tests its size: an empty file
\* yields one hash, of no bytes.
ChunkHashes_hashThenTest(data, block_size) ==
    LET reads == BufReaderReads(Size(data), block_size, 0, 0)
    IN  IF reads = <<>> THEN <<crc64(<<>>)>>
        ELSE [k \in 1..Len(reads) |-> crc64(Slice(data, SumTo(reads, k - 1), reads[k]))]

\* The loop of scan_file: one hash per chunk read, over the bytes read.
ChunkHashes(data, block_size) ==
    LET reads == BufReaderReads(Size(data), block_size, 0, 0)
    IN  [k \in 1..Len(reads) |-> crc64(Slice(data, SumTo(reads, k - 1), reads[k]))]

\* scan.rs: last_block_size is file_size % block_size.
scan_file(path, data, block_size) ==
    [path            |-> path,
     block_size      |-> block_size,
     block_hashes    |-> ChunkHashes(data, block_size),
     last_block_size |-> Size(data) % block_size]

\* main.rs: last_block_size is the size of the last chunk read (0 by default).
main_scan_file(path, data, block_size) ==
    LET reads == BufReaderReads(Size(data), block_size, 0, 0)
    IN  [path            |-> path,
         block_size      |-> block_size,
         block_hashes    |-> ChunkHashes(data, block_size),
         last_block_size |-> IF reads = <<>> THEN 0 ELSE reads[Len(reads)]]

\* index is 0-based, as in the source.
get_block_location(sr, index) ==
    [path   |-> sr.path,
     offset |-> sr.block_size * index,
     length |-> IF index = Len(sr.block_hashes) - 1
                THEN sr.last_block_size
                ELSE sr.block_size]

\* ------------------------------------------------------------------ dedup
\* What the environment decides during one dedup call: whether each open
\* succeeds, whether reading the metadata of the opened files succeeds, and
\* whether the ioctl behind deduplicate_range succeeds.
\* Only the first failure matters: what follows it is never attempted.
DedupEnvs ==
    {e \in [open1 : BOOLEAN, open2 : BOOLEAN, metadata : BOOLEAN, ioctl : BOOLEAN] :
        /\ ~(e.open1 /\ e.open2) => e.metadata /\ e.ioctl
        /\ ~e.metadata => e.ioctl}

\* The status the filesystem writes into dest_infos[0] when the ioctl
\* succeeds: it compares src_length bytes at both offsets itself.
RangeStatus(fsys, block1, block2) ==
    LET src == Slice(fsys[PathIno[block1.path]], block1.offset, block1.length)
        dst == Slice(fsys[PathIno[block2.path]], block2.offset, block1.length)
    IN  IF src = dst /\ Size(src) = block1.length THEN "Same" ELSE "Differs"

DedupNone == [res |-> "Ok", opens |-> 0, prim |-> "none", e1 |-> FALSE, e2 |-> FALSE]

\* dedup without its first check: a location paired with itself goes on to
\* the opens.
dedup_noSameBlock(fsys, block1, block2, env) ==
    IF ~(env.open1 /\ env.open2)
    THEN [DedupNone EXCEPT !.res = "FileErrors", !.opens = 2,
                           !.e1 = ~env.open1, !.e2 = ~env.open2]
    ELSE IF ~env.metadata
    THEN [DedupNone EXCEPT !.res = "Panic", !.opens = 2]
    ELSE IF <<PathIno[block1.path], block1.offset, block1.length>>
            = <<PathIno[block2.path], block2.offset, block2.length>>
    THEN [DedupNone EXCEPT !.res = "SameExtent", !.opens = 2]
    ELSE IF ~env.ioctl
    THEN [DedupNone EXCEPT !.res = "DedupInternal", !.opens = 2, !.prim = "Err"]
    ELSE [DedupNone EXCEPT !.res = "Ok", !.opens = 2,
                           !.prim = RangeStatus(fsys, block1, block2)]

\* dedup with the SameExtent check made on the paths instead of the inodes.
dedup_comparePaths(fsys, block1, block2, env) ==
    IF block1 = block2
    THEN [DedupNone EXCEPT !.res = "SameBlock"]
    ELSE IF ~(env.open1 /\ env.open2)
    THEN [DedupNone EXCEPT !.res = "FileErrors", !.opens = 2,
                           !.e1 = ~env.open1, !.e2 = ~env.open2]
    ELSE IF ~env.metadata
    THEN [DedupNone EXCEPT !.res = "Panic", !.opens = 2]
    ELSE IF <<block1.path, block1.offset, block1.length>>
            = <<block2.path, block2.offset, block2.length>>
    THEN [DedupNone EXCEPT !.res = "SameExtent", !.opens = 2]
    ELSE IF ~env.ioctl
    THEN [DedupNone EXCEPT !.res = "DedupInternal", !.opens = 2, !.prim = "Err"]
    ELSE [DedupNone EXCEPT !.res = "Ok", !.opens = 2,
                           !.prim = RangeStatus(fsys, block1, block2)]

\* dedup without the SameExtent check: after the metadata reads it goes on to
\* the primitive whatever the inodes are.
dedup_noSameExtent(fsys, block1, block2, env) ==
    IF block1 = block2
    THEN [DedupNone EXCEPT !.res = "SameBlock"]
    ELSE IF ~(env.open1 /\ env.open2)
    THEN [DedupNone EXCEPT !.res = "FileErrors", !.opens = 2,
                           !.e1 = ~env.open1, !.e2 = ~env.open2]
    ELSE IF ~env.metadata
    THEN [DedupNone EXCEPT !.res = "Panic", !.opens = 2]
    ELSE IF ~env.ioctl
    THEN [DedupNone EXCEPT !.res = "DedupInternal", !.opens = 2, !.prim = "Err"]
    ELSE [DedupNone EXCEPT !.res = "Ok", !.opens = 2,
                           !.prim = RangeStatus(fsys, block1, block2)]

\* dedup that opens the second file only when the first open succeeded:
\* FileErrors then carries the first error alone.
dedup_secondOpenSkipped(fsys, block1, block2, env) ==
    IF block1 = block2
    THEN [DedupNone EXCEPT !.res = "SameBlock"]
    ELSE IF ~env.open1
    THEN [DedupNone EXCEPT !.res = "FileErrors", !.opens = 1, !.e1 = TRUE]
    ELSE IF ~env.open2
    THEN [DedupNone EXCEPT !.res = "FileErrors", !.opens = 2, !.e2 = TRUE]
    ELSE IF ~env.metadata
    THEN [DedupNone EXCEPT !.res = "Panic", !.opens = 2]
    ELSE IF <<PathIno[block1.path], block1.offset, block1.length>>
            = <<PathIno[block2.path], block2.offset, block2.length>>
    THEN [DedupNone EXCEPT !.res = "SameExtent", !.opens = 2]
    ELSE IF ~env.ioctl
    THEN [DedupNone EXCEPT !.res = "DedupInternal", !.opens = 2, !.prim = "Err"]
    ELSE [DedupNone EXCEPT !.res = "Ok", !.opens = 2,
                           !.prim = RangeStatus(fsys, block1, block2)]

\* dedup(block1, block2): res is the value returned ("Panic" when an unwrap
\* panics), opens the number of files it tried to open, prim what the
\* filesystem primitive reported ("none": not called), e1 and e2 whether
\* FileErrors carries an error for the first and the second open.
dedup(fsys, block1, block2, env) ==
    LET none == DedupNone
    IN  IF block1 = block2
        THEN [none EXCEPT !.res = "SameBlock"]
        ELSE IF ~(env.open1 /\ env.open2)
        THEN [none EXCEPT !.res = "FileErrors", !.opens = 2,
                          !.e1 = ~env.open1, !.e2 = ~env.open2]
        ELSE IF ~env.metadata
        THEN [none EXCEPT !.res = "Panic", !.opens = 2]
        ELSE IF <<PathIno[block1.path], block1.offset, block1.length>>
                = <<PathIno[block2.path], block2.offset, block2.length>>
        THEN [none EXCEPT !.res = "SameExtent", !.opens = 2]
        ELSE IF ~env.ioctl
        THEN [none EXCEPT !.res = "DedupInternal", !.opens = 2, !.prim = "Err"]
        ELSE [none EXCEPT !.res = "Ok", !.opens = 2,
                          !.prim = RangeStatus(fsys, block1, block2)]

\* ------------------------------------------------------------------ state
VARIABLES
    fs,         \* contents of the inodes (fixed during a run)
    args,       \* Args: root, block_size, dedup_queue
    impl,       \* "main": main.rs's crawl_paths and scan_file; "scan": scan.rs's
    Workers,    \* threads that run scan_file: the crawler thread, or the rayon pool
    pending,    \* files the walk iterator has still to yield
    wpc,        \* per worker: "idle", "send" (inside scanned_tx.send), "panicked"
    held,       \* per worker: the ScanResult it is sending
    sentAt,     \* per worker, set when send is called: was the channel full, and
                \* how many results the consumer had received
    crawl,      \* crawl_paths: "running", "done" (returned), "panicked"
    txAlive,    \* scanned_tx not yet dropped
    rxAlive,    \* scanned_rx not yet dropped
    chan,       \* ScanResults queued in the channel
    mainpc,     \* "recv", "iter" (inside the for loop), "join", "done",
                \* "panicked", "exited"
    cur,        \* scan_result of the current iteration of the while loop
    number,     \* index of the next block of cur
    inodes,     \* the index: hash -> first BlockLocation
    processed,  \* history: <<hash, location>> of every block the consumer took
    lastCall,   \* history: the latest dedup invocation (at: its block's place in
                \* processed; env: what the environment decided) and what it did
    ncalls,     \* history: number of dedup invocations
    nrecv,      \* history: number of ScanResults received
    scanIn,     \* scan_file alone: its input
    scanOut     \* scan_file alone: its result

vars == <<fs, args, impl, Workers, pending, wpc, held, sentAt, crawl, txAlive,
          rxAlive, chan, mainpc, cur, number, inodes, processed, lastCall,
          ncalls, nrecv, scanIn, scanOut>>

pipeVars == <<fs, args, impl, Workers, pending, wpc, held, sentAt, crawl,
              txAlive, rxAlive, chan, mainpc, cur, number, inodes, processed,
              lastCall, ncalls, nrecv>>

NoResult == [path |-> "", block_size |-> 0, block_hashes |-> <<>>, last_block_size |-> 0]
NoLocation == [path |-> "", offset |-> 0, length |-> 0]
NoCall == [src |-> NoLocation, dst |-> NoLocation, hash |-> <<>>, at |-> 0,
           env |-> [open1 |-> TRUE, open2 |-> TRUE, metadata |-> TRUE, ioctl |-> TRUE],
           out |-> [res |-> "none", opens |-> 0, prim |-> "none",
                    e1 |-> FALSE, e2 |-> FALSE]]
NoSend == [full |-> FALSE, nrecv |-> 0]
NoScan == [size |-> 0, block_size |-> 0, impl |-> "none"]

SeqsUpTo(S, n) == UNION {[1..k -> S] : k \in 0..n}

\* paths.iter().flat_map(WalkDir): the files of every root, in root order.
RECURSIVE walk_iter(_)
walk_iter(roots) ==
    IF roots = <<>> THEN <<>> ELSE WalkDir(Head(roots)) \o walk_iter(Tail(roots))

Init ==
    /\ fs \in Images
    /\ args \in [root : SeqsUpTo(Roots, MaxRoots), block_size : BlockSizes,
                 dedup_queue : 0..MaxQueue]
    /\ <<fs, args.block_size>> \in Setups
    /\ impl \in {"main", "scan"}
    /\ Workers = IF impl = "main" THEN {1} ELSE 1..MaxWorkers
    /\ pending = walk_iter(args.root)
    /\ wpc = [w \in Workers |-> "idle"]
    /\ held = [w \in Workers |-> NoResult]
    /\ sentAt = [w \in Workers |-> NoSend]
    /\ crawl = "running"
    /\ txAlive = TRUE
    /\ rxAlive = TRUE
    /\ chan = <<>>
    /\ mainpc = "recv"
    /\ cur = NoResult
    /\ number = 0
    /\ inodes = <<>>
    /\ processed = <<>>
    /\ lastCall = NoCall
    /\ ncalls = 0
    /\ nrecv = 0
    /\ scanIn = NoScan
    /\ scanOut = NoResult

Running == mainpc # "exited"

\* ---------------------------------------------------------------- crawler
\* scan_file of every file of every image, by variant, computed once.
Scanned ==
    [variant \in {"main", "scan"}, image \in Images, path \in Paths, bs \in BlockSizes |->
        IF variant = "main" THEN main_scan_file(path, image[PathIno[path]], bs)
        ELSE scan_file(path, image[PathIno[path]], bs)]

\* The file scanned by the variant of scan_file the run uses.
ScanOf(path) == Scanned[impl, fs, path, args.block_size]

\* A worker takes the next entry; scan_file succeeds and send is called.
ScanOk(w) ==
    /\ Running /\ crawl = "running" /\ wpc[w] = "idle" /\ pending # <<>>
    /\ \A v \in Workers : wpc[v] # "panicked"
    /\ pending' = Tail(pending)
    /\ held' = [held EXCEPT ![w] = ScanOf(Head(pending))]
    /\ wpc' = [wpc EXCEPT ![w] = "send"]
    /\ sentAt' = [sentAt EXCEPT ![w] = [full |-> Len(chan) >= args.dedup_queue,
                                        nrecv |-> nrecv]]
    /\ UNCHANGED <<fs, args, impl, Workers, crawl, txAlive, rxAlive, chan, mainpc,
                   cur, number, inodes, processed, lastCall, ncalls, nrecv,
                   scanIn, scanOut>>

\* scan_file fails with IoError: the entry is skipped.
ScanErr(w) ==
    /\ Running /\ crawl = "running" /\ wpc[w] = "idle" /\ pending # <<>>
    /\ \A v \in Workers : wpc[v] # "panicked"
    /\ pending' = Tail(pending)
    /\ UNCHANGED <<fs, args, impl, Workers, wpc, held, sentAt, crawl, txAlive,
                   rxAlive, chan, mainpc, cur, number, inodes, processed,
                   lastCall, ncalls, nrecv, scanIn, scanOut>>

\* An unbounded channel (mpsc::channel) in place of sync_channel.
HasRoom_unbounded(queue, capacity) == TRUE

\* A channel whose buffer takes one result more than the capacity asked for.
HasRoom_oneMore(queue, capacity) == Len(queue) <= capacity

\* Whether send may put its result into the channel's buffer.
HasRoom(queue, capacity) == Len(queue) < capacity

\* send returns Ok: the result is queued (capacity > 0).
Send(w) ==
    /\ Running /\ wpc[w] = "send" /\ rxAlive
    /\ HasRoom(chan, args.dedup_queue)
    /\ chan' = Append(chan, held[w])
    /\ held' = [held EXCEPT ![w] = NoResult]
    /\ wpc' = [wpc EXCEPT ![w] = "idle"]
    /\ sentAt' = [sentAt EXCEPT ![w] = NoSend]
    /\ UNCHANGED <<fs, args, impl, Workers, pending, crawl, txAlive,
                   rxAlive, mainpc, cur, number, inodes, processed, lastCall,
                   ncalls, nrecv, scanIn, scanOut>>

\* send returns Ok on a channel of capacity 0: the result goes straight to the
\* consumer waiting in recv.
Rendezvous(w) ==
    /\ Running /\ wpc[w] = "send" /\ rxAlive
    /\ args.dedup_queue = 0 /\ mainpc = "recv"
    /\ cur' = held[w]
    /\ number' = 0
    /\ mainpc' = "iter"
    /\ nrecv' = nrecv + 1
    /\ held' = [held EXCEPT ![w] = NoResult]
    /\ wpc' = [wpc EXCEPT ![w] = "idle"]
    /\ sentAt' = [sentAt EXCEPT ![w] = NoSend]
    /\ UNCHANGED <<fs, args, impl, Workers, pending, crawl, txAlive,
                   rxAlive, chan, inodes, processed, lastCall, ncalls,
                   scanIn, scanOut>>

\* send returns Err (the receiver is gone) and unwrap panics.
SendFail(w) ==
    /\ Running /\ wpc[w] = "send" /\ ~rxAlive
    /\ wpc' = [wpc EXCEPT ![w] = "panicked"]
    /\ held' = [held EXCEPT ![w] = NoResult]
    /\ sentAt' = [sentAt EXCEPT ![w] = NoSend]
    /\ UNCHANGED <<fs, args, impl, Workers, pending, crawl, txAlive,
                   rxAlive, chan, mainpc, cur, number, inodes, processed,
                   lastCall, ncalls, nrecv, scanIn, scanOut>>

\* The iterator is exhausted and every worker is back: crawl_paths returns,
\* which drops scanned_tx.
CrawlReturn ==
    /\ Running /\ crawl = "running" /\ pending = <<>>
    /\ \A w \in Workers : wpc[w] = "idle"
    /\ crawl' = "done"
    /\ txAlive' = FALSE
    /\ UNCHANGED <<fs, args, impl, Workers, pending, wpc, held, sentAt, rxAlive,
                   chan, mainpc, cur, number, inodes, processed, lastCall,
                   ncalls, nrecv, scanIn, scanOut>>

\* A worker panicked and the others have stopped: the panic unwinds the
\* crawler thread, which drops scanned_tx.
CrawlPanic ==
    /\ Running /\ crawl = "running"
    /\ \E w \in Workers : wpc[w] = "panicked"
    /\ \A w \in Workers : wpc[w] \in {"idle", "panicked"}
    /\ crawl' = "panicked"
    /\ txAlive' = FALSE
    /\ UNCHANGED <<fs, args, impl, Workers, pending, wpc, held, sentAt, rxAlive,
                   chan, mainpc, cur, number, inodes, processed, lastCall,
                   ncalls, nrecv, scanIn, scanOut>>

\* --------------------------------------------------------------- consumer
\* scanned_rx.recv() returns Ok: the oldest queued result.
Recv ==
    /\ mainpc = "recv" /\ chan # <<>>
    /\ cur' = Head(chan)
    /\ chan' = Tail(chan)
    /\ number' = 0
    /\ mainpc' = "iter"
    /\ nrecv' = nrecv + 1
    /\ UNCHANGED <<fs, args, impl, Workers, pending, wpc, held, sentAt, crawl,
                   txAlive, rxAlive, inodes, processed, lastCall, ncalls,
                   scanIn, scanOut>>

\* scanned_rx.recv() returns Err: the while loop ends.
RecvDisconnected ==
    /\ mainpc = "recv" /\ chan = <<>> /\ ~txAlive
    /\ mainpc' = "join"
    /\ UNCHANGED <<fs, args, impl, Workers, pending, wpc, held, sentAt, crawl,
                   txAlive, rxAlive, chan, cur, number, inodes, processed,
                   lastCall, ncalls, nrecv, scanIn, scanOut>>

\* insert on every block: the last location seen replaces the first.
NextIndex_lastWriterWins(index, block_hash, block_location) ==
    (block_hash :> block_location) @@ index

\* The entry is taken out of the index (remove) when it is paired.
NextIndex_removeOnHit(index, block_hash, block_location) ==
    IF block_hash \in DOMAIN index
    THEN [h \in DOMAIN index \ {block_hash} |-> index[h]]
    ELSE (block_hash :> block_location) @@ index

\* The index after the match on inodes.get(block_hash): a new key on a miss,
\* nothing on a hit.
NextIndex(index, block_hash, block_location) ==
    IF block_hash \in DOMAIN index THEN index
    ELSE (block_hash :> block_location) @@ index

\* A call that did not return Ok is made once more.
Attempts_retry(res) == IF res = "Ok" THEN 1 ELSE 2

\* Number of dedup calls made for one index hit whose call returned res.
Attempts(res) == 1

\* One iteration of the for loop with the hash in the index: dedup(x.clone(),
\* block_location), every Err logged. A panic inside dedup unwinds main,
\* which drops scanned_rx.
IndexHit ==
    /\ mainpc = "iter" /\ number < Len(cur.block_hashes)
    /\ LET block_hash     == cur.block_hashes[number + 1]
           block_location == get_block_location(cur, number)
       IN  /\ block_hash \in DOMAIN inodes
           /\ \E env \in DedupEnvs :
                LET out == dedup(fs, inodes[block_hash], block_location, env)
                IN  /\ lastCall' = [src |-> inodes[block_hash], dst |-> block_location,
                                    hash |-> block_hash, at |-> Len(processed) + 1,
                                    env |-> env, out |-> out]
                    /\ ncalls' = ncalls + Attempts(out.res)
                    /\ IF out.res = "Panic"
                       THEN mainpc' = "panicked" /\ rxAlive' = FALSE /\ number' = number
                       ELSE mainpc' = "iter" /\ rxAlive' = rxAlive /\ number' = number + 1
           /\ inodes' = NextIndex(inodes, block_hash, block_location)
           /\ processed' = Append(processed, <<block_hash, block_location>>)
    /\ UNCHANGED <<fs, args, impl, Workers, pending, wpc, held, sentAt, crawl,
                   txAlive, chan, cur, nrecv, scanIn, scanOut>>

\* One iteration of the for loop with the hash not in the index: insert.
IndexMiss ==
    /\ mainpc = "iter" /\ number < Len(cur.block_hashes)
    /\ LET block_hash     == cur.block_hashes[number + 1]
           block_location == get_block_location(cur, number)
       IN  /\ block_hash \notin DOMAIN inodes
           /\ inodes' = NextIndex(inodes, block_hash, block_location)
           /\ processed' = Append(processed, <<block_hash, block_location>>)
    /\ number' = number + 1
    /\ UNCHANGED <<fs, args, impl, Workers, pending, wpc, held, sentAt, crawl,
                   txAlive, rxAlive, chan, mainpc, cur, lastCall, ncalls, nrecv,
                   scanIn, scanOut>>

\* A consumer that may go back to recv with blocks of the current result
\* still to take.
LoopEnd_anyBlock ==
    /\ mainpc = "iter"
    /\ mainpc' = "recv"
    /\ cur' = NoResult
    /\ number' = 0
    /\ UNCHANGED <<fs, args, impl, Workers, pending, wpc, held, sentAt, crawl,
                   txAlive, rxAlive, chan, inodes, processed, lastCall, ncalls,
                   nrecv, scanIn, scanOut>>

\* The for loop is over: back to recv.
LoopEnd ==
    /\ mainpc = "iter" /\ number = Len(cur.block_hashes)
    /\ mainpc' = "recv"
    /\ cur' = NoResult
    /\ number' = 0
    /\ UNCHANGED <<fs, args, impl, Workers, pending, wpc, held, sentAt, crawl,
                   txAlive, rxAlive, chan, inodes, processed, lastCall, ncalls,
                   nrecv, scanIn, scanOut>>

\* crawler_handle.join() returns once the crawler thread has ended; its
\* result is dropped.
Join ==
    /\ mainpc = "join" /\ crawl # "running"
    /\ mainpc' = "done"
    /\ rxAlive' = FALSE
    /\ UNCHANGED <<fs, args, impl, Workers, pending, wpc, held, sentAt, crawl,
                   txAlive, chan, cur, number, inodes, processed, lastCall,
                   ncalls, nrecv, scanIn, scanOut>>

\* main has returned or panicked: the process ends, and every thread with it.
Exit ==
    /\ mainpc \in {"done", "panicked"}
    /\ mainpc' = "exited"
    /\ UNCHANGED <<fs, args, impl, Workers, pending, wpc, held, sentAt, crawl,
                   txAlive, rxAlive, chan, cur, number, inodes, processed,
                   lastCall, ncalls, nrecv, scanIn, scanOut>>

Next ==
    \/ \E w \in Workers : ScanOk(w)
    \/ \E w \in Workers : ScanErr(w)
    \/ \E w \in Workers : Send(w)
    \/ \E w \in Workers : Rendezvous(w)
    \/ \E w \in Workers : SendFail(w)
    \/ CrawlReturn
    \/ CrawlPanic
    \/ Recv
    \/ RecvDisconnected
    \/ IndexHit
    \/ IndexMiss
    \/ LoopEnd
    \/ Join
    \/ Exit

Spec == Init /\ [][Next]_vars

\* Every thread that can take a step eventually takes one.
WorkerStep(w) ==
    /\ w \in Workers
    /\ ScanOk(w) \/ ScanErr(w) \/ Send(w) \/ Rendezvous(w) \/ SendFail(w)

FairSpec ==
    /\ Spec
    /\ \A w \in 1..MaxWorkers : WF_vars(WorkerStep(w))
    /\ WF_vars(CrawlReturn \/ CrawlPanic)
    /\ WF_vars(Recv \/ RecvDisconnected \/ IndexHit \/ IndexMiss \/ LoopEnd \/ Join \/ Exit)

\* --------------------------------------------------------- scan_file alone
ScanSizes == {0, 1, 100, 2999, 3000, 4096, 6000, 8191, 8192, 8193, 9000, 12288, 16384}
ScanBlockSizes == {1000, 3000, 4096, 8192, 10000}

\* A file of `size` bytes of one value.
Filled(size) == IF size = 0 THEN <<>> ELSE << <<1, size>> >>

InitScan ==
    /\ scanIn \in [size : ScanSizes, block_size : ScanBlockSizes, impl : {"main", "scan"}]
    /\ scanOut = NoResult
    /\ fs = << <<>>, <<>> >>
    /\ args = [root |-> <<>>, block_size |-> 4096, dedup_queue |-> 0]
    /\ impl = "main"
    /\ Workers = {1}
    /\ pending = <<>>
    /\ wpc = [w \in Workers |-> "idle"]
    /\ held = [w \in Workers |-> NoResult]
    /\ sentAt = [w \in Workers |-> NoSend]
    /\ crawl = "done"
    /\ txAlive = FALSE
    /\ rxAlive = FALSE
    /\ chan = <<>>
    /\ mainpc = "exited"
    /\ cur = NoResult
    /\ number = 0
    /\ inodes = <<>>
    /\ processed = <<>>
    /\ lastCall = NoCall
    /\ ncalls = 0
    /\ nrecv = 0

\* scan_file(path, block_size) returns Ok.
RunScan ==
    /\ scanIn.impl # "none" /\ scanOut = NoResult
    /\ scanOut' = IF scanIn.impl = "main"
                  THEN main_scan_file("a", Filled(scanIn.size), scanIn.block_size)
                  ELSE scan_file("a", Filled(scanIn.size), scanIn.block_size)
    /\ UNCHANGED <<scanIn, pipeVars>>

NextScan == RunScan

SpecScan == InitScan /\ [][NextScan]_vars

\* ================================================================= claims
CeilDiv(x, y) == (x + y - 1) \div y

\* Position in processed of the first block with hash h.
FirstAt(h) == CHOOSE i \in 1..Len(processed) :
                 /\ processed[i][1] = h
                 /\ \A j \in 1..(i - 1) : processed[j][1] # h

Called == lastCall.out.res # "none"

\* C1. Collision safety: when dedup reaches the filesystem primitive and the
\* primitive reports that the bytes of its one destination differ, dedup does
\* not return Ok.
C1_CollisionSafety ==
    lastCall.out.prim = "Differs" => lastCall.out.res # "Ok"

\* C2. First-writer-wins pairing: every dedup invocation for a block with
\* hash h has as source the location of the first block with hash h the
\* consumer processed, an earlier block than the one being processed, and as
\* destination the block being processed.
C2_FirstWriterWins ==
    Called =>
        /\ processed[lastCall.at] = <<lastCall.hash, lastCall.dst>>
        /\ FirstAt(lastCall.hash) < lastCall.at
        /\ lastCall.src = processed[FirstAt(lastCall.hash)][2]

\* A third occurrence of a hash has been paired, with the first one.
C2_Witness ==
    /\ Called
    /\ Cardinality({i \in 1..(lastCall.at - 1) : processed[i][1] = lastCall.hash}) >= 2
    /\ processed[lastCall.at - 1][1] = lastCall.hash
    /\ processed[lastCall.at - 1][2] # lastCall.src

\* C3. Index stability: a hash once mapped keeps its location; the index
\* changes only by one new key on a miss; a dedup invocation leaves it
\* unchanged whatever it returns.
C3_IndexStability ==
    [][/\ \A h \in DOMAIN inodes : h \in DOMAIN inodes' /\ inodes'[h] = inodes[h]
       /\ inodes' # inodes =>
            /\ Cardinality(DOMAIN inodes') = Cardinality(DOMAIN inodes) + 1
            /\ ncalls' = ncalls
       /\ ncalls' # ncalls => inodes' = inodes]_vars

\* A dedup call has failed and the index still maps its hash to its source.
C3_Witness ==
    /\ lastCall.out.res \in {"SameBlock", "SameExtent", "FileErrors", "DedupInternal"}
    /\ lastCall.hash \in DOMAIN inodes
    /\ inodes[lastCall.hash] = lastCall.src
    /\ Len(processed) > lastCall.at

\* C4. Chunking: scan_file yields ceil(S/B) hashes; the last block's length
\* is S mod B, or B when S is a positive multiple of B; every other block
\* has length B; block i starts at i*B.
C4_Chunking ==
    scanOut # NoResult =>
        LET S == scanIn.size
            B == scanIn.block_size
            n == Len(scanOut.block_hashes)
        IN  /\ n = CeilDiv(S, B)
            /\ \A i \in 0..(n - 1) :
                 LET loc == get_block_location(scanOut, i)
                 IN  /\ loc.offset = i * B
                     /\ loc.length = IF i < n - 1 THEN B
                                     ELSE IF S % B = 0 THEN B ELSE S % B

\* C5. Self-reference: dedup(src, dst) with src = dst returns SameBlock,
\* opens no file and does not call the primitive.
C5_SelfReference ==
    (Called /\ lastCall.src = lastCall.dst) =>
        /\ lastCall.out.res = "SameBlock"
        /\ lastCall.out.opens = 0
        /\ lastCall.out.prim = "none"

C5_Witness == Called /\ lastCall.src = lastCall.dst

SameTriple(b1, b2) ==
    <<PathIno[b1.path], b1.offset, b1.length>> = <<PathIno[b2.path], b2.offset, b2.length>>

C7_Backpressure ==
    /\ [](Len(chan) <= args.dedup_queue)
    /\ [][\A w \in Workers :
            (wpc[w] = "send" /\ wpc'[w] = "idle" /\ sentAt[w].full)
                => nrecv' > sentAt[w].nrecv]_vars

\* A producer is blocked in send with the channel full.
C7_Witness ==
    \E w \in Workers :
        /\ wpc[w] = "send" /\ sentAt[w].full /\ sentAt[w].nrecv = nrecv
        /\ args.dedup_queue > 0 /\ Len(chan) = args.dedup_queue

\* C8. Non-escalating failures: a failed scan_file leaves the crawler running
\* on the remaining files, and a dedup call that does not return Ok (a
\* failed metadata read included) leaves the consumer in its loop, at the
\* next block.
C8_NonEscalating ==
    [][/\ (pending' # pending /\ wpc' = wpc) =>
            (crawl' = "running" /\ \A w \in Workers : wpc'[w] # "panicked")
       /\ (ncalls' # ncalls /\ lastCall'.out.res # "Ok") =>
            (mainpc' = "iter" /\ number' = number + 1)]_vars

\* C9. Completion: under fair scheduling the crawl eventually finishes and
\* the channel is then closed, the consumer eventually leaves its receive
\* loop, and it leaves it only when every sender is gone and the channel is
\* empty.
C9_Completion ==
    /\ <>(crawl = "done")
    /\ [](crawl = "done" => ~txAlive)
    /\ <>(mainpc \notin {"recv", "iter"})
    /\ [](mainpc \notin {"recv", "iter"} => (~txAlive /\ chan = <<>>))

\* Two files of three blocks each, the first two blocks shared.
ScenarioA ==
    /\ fs = << << <<1, 4096>>, <<2, 4096>>, <<3, 4096>> >>,
               << <<1, 4096>>, <<2, 4096>>, <<4, 4096>> >> >>
    /\ args.block_size = 4096
    /\ args.root \in {<<"da", "db">>, <<"db", "da">>}

\* C10. One attempt per index hit: a block causes one dedup invocation when
\* its hash is in the index and none when it is not, so the invocations
\* number the blocks consumed less the distinct hashes among them; in
\* scenario A a complete run makes exactly 2 invocations, none of them for
\* block 2.
C10_OneAttempt ==
    /\ [][IF Len(processed') = Len(processed) + 1
          THEN ncalls' - ncalls =
                 IF processed'[Len(processed')][1] \in DOMAIN inodes THEN 1 ELSE 0
          ELSE ncalls' = ncalls]_vars
    /\ [](ncalls = Len(processed)
                    - Cardinality({processed[i][1] : i \in 1..Len(processed)}))
    /\ []((ScenarioA /\ mainpc = "done" /\ nrecv = 2) =>
            (ncalls = 2 /\ lastCall.dst.offset = 4096))

C10_Witness ==
    /\ ScenarioA /\ mainpc = "done" /\ nrecv = 2
    /\ ncalls = 2 /\ Len(processed) = 6

\* The files scanned are the two hardlinks "a" and "c" of inode 1.
HardlinkScenario == args.root \in {<<"da", "dc">>, <<"dc", "da">>}

\* No two blocks of the hardlinked file have the same hash.
DistinctBlocks ==
    LET hs == ScanOf("a").block_hashes
    IN  \A i, j \in 1..Len(hs) : hs[i] = hs[j] => i = j

\* C11 as stated. Hardlink scenario: every dedup invocation of a run over two
\* hardlinks of one inode returns SameExtent, and the primitive is never
\* called successfully.
C11_HardlinkAsStated ==
    (HardlinkScenario /\ Called) =>
        /\ lastCall.out.res = "SameExtent"
        /\ lastCall.out.prim \notin {"Same", "Differs"}

\* C11, amended. Hardlink scenario, for a file whose blocks all differ in
\* hash: no dedup invocation of the run reaches the primitive; an invocation
\* returns SameExtent when both opens and the metadata reads succeed,
\* FileErrors when an open fails, and panics when a metadata read fails.
C11_Hardlink ==
    (HardlinkScenario /\ DistinctBlocks /\ Called) =>
        /\ lastCall.out.prim = "none"
        /\ lastCall.out.res =
             IF ~(lastCall.env.open1 /\ lastCall.env.open2) THEN "FileErrors"
             ELSE IF ~lastCall.env.metadata THEN "Panic"
             ELSE "SameExtent"

\* Every block of the second hardlink has been paired with the first one's,
\* the last of them with SameExtent.
C11_Witness ==
    /\ HardlinkScenario /\ DistinctBlocks
    /\ mainpc = "done" /\ nrecv = 2
    /\ Len(processed) = 6 /\ ncalls = 3
    /\ lastCall.out.res = "SameExtent"

\* C12. Self-pairing never happens: whatever the roots, no dedup invocation
\* has as destination the location the index holds for the block's hash, and
\* none returns SameBlock.
C12_NoSelfPairing ==
    Called =>
        /\ lastCall.dst # lastCall.src
        /\ lastCall.out.res # "SameBlock"

\* The consumer is in its for loop over the ScanResult of an empty file.
ConsumingEmpty == mainpc = "iter" /\ Size(fs[PathIno[cur.path]]) = 0

\* C13. Empty file: scan_file of an empty file returns a ScanResult with no
\* block hash, and while the consumer holds that result no step adds an index
\* entry, calls dedup, takes a block (the one place get_block_location is
\* called) or panics: the loop ends and the consumer is back in recv.
C13_EmptyFile ==
    /\ [](\A p \in Paths : Size(fs[PathIno[p]]) = 0 => ScanOf(p).block_hashes = <<>>)
    /\ [](ConsumingEmpty => cur.block_hashes = <<>>)
    /\ [][ConsumingEmpty =>
            /\ inodes' = inodes
            /\ ncalls' = ncalls /\ lastCall' = lastCall
            /\ processed' = processed
            /\ mainpc' \in {"iter", "recv"}]_vars

\* A run over an empty file and a one-block file has ended: both results
\* were received, one block was taken and dedup was never called.
C13_Witness ==
    /\ fs[1] = <<>> /\ args.root = <<"da", "db">>
    /\ mainpc = "done" /\ nrecv = 2
    /\ Len(processed) = 1 /\ ncalls = 0 /\ DOMAIN inodes = {<< <<1, 100>> >>}

\* C14. Crawl outcome is observed: the process ends only after the crawl
\* thread has ended, and when the crawl thread has panicked the process ends
\* from main's return, after join has handed main that outcome, not from a
\* main that never joined.
C14_CrawlObserved ==
    [][(mainpc # "exited" /\ mainpc' = "exited") =>
            /\ crawl # "running"
            /\ crawl = "panicked" => mainpc = "done"]_vars

\* C15. Open failure: a dedup invocation with src # dst in which the open of
\* src or the open of dst fails returns FileErrors, carrying an error for
\* exactly the opens that failed (so for at least one), and does not call
\* the primitive.
C15_OpenFailure ==
    (Called /\ lastCall.src # lastCall.dst
            /\ ~(lastCall.env.open1 /\ lastCall.env.open2)) =>
        /\ lastCall.out.res = "FileErrors"
        /\ lastCall.out.e1 = ~lastCall.env.open1
        /\ lastCall.out.e2 = ~lastCall.env.open2
        /\ lastCall.out.e1 \/ lastCall.out.e2
        /\ lastCall.out.prim = "none"

\* Both opens of one invocation failed and FileErrors carries both errors.
C15_Witness ==
    /\ Called /\ lastCall.src # lastCall.dst
    /\ ~lastCall.env.open1 /\ ~lastCall.env.open2
    /\ lastCall.out.res = "FileErrors"
    /\ lastCall.out.e1 /\ lastCall.out.e2

\* C16. Chunk alignment: every chunk scan_file hashes but the last is B bytes
\* long, so block_hashes[i] is the hash of the file's bytes from i*B up to
\* min((i+1)*B, S), and get_block_location(i) designates exactly those
\* bytes; also when B does not divide the BufReader's buffer size.
C16_ChunkAlignment ==
    scanOut # NoResult =>
        LET S == scanIn.size
            B == scanIn.block_size
        IN  \A i \in 0..(Len(scanOut.block_hashes) - 1) :
                /\ i * B < S
                /\ scanOut.block_hashes[i + 1]
                     = crc64(Slice(Filled(S), i * B, Min(B, S - i * B)))
                /\ get_block_location(scanOut, i)
                     = [path |-> "a", offset |-> i * B, length |-> Min(B, S - i * B)]

\* Number of blocks of the ScanResult of the file at path.
BlocksOf(path) == Len(ScanOf(path).block_hashes)

\* C17. Per-file ordering: the blocks the consumer takes are, result by
\* result, blocks 0, 1, 2, ... of one ScanResult in ascending index with none
\* skipped, and a block of another result is taken only after the last block
\* of the one before; in which order the files come is not fixed.
C17_PerFileOrdering ==
    \A i \in 1..Len(processed) :
        LET B   == args.block_size
            loc == processed[i][2]
            k   == loc.offset \div B
        IN  /\ loc.offset = k * B /\ k < BlocksOf(loc.path)
            /\ processed[i][1] = ScanOf(loc.path).block_hashes[k + 1]
            /\ IF i = 1 THEN k = 0
               ELSE LET prev == processed[i - 1][2]
                    IN  \/ k > 0 /\ prev.path = loc.path /\ prev.offset = (k - 1) * B
                        \/ k = 0 /\ prev.offset = (BlocksOf(prev.path) - 1) * B

\* A whole run over two three-block files in which the second root's file
\* was consumed first: all six blocks taken, each file's in ascending order.
C17_Witness ==
    /\ ScenarioA /\ args.root = <<"da", "db">>
    /\ mainpc = "done" /\ Len(processed) = 6
    /\ processed[1][2].path = "b" /\ processed[3][2].offset = 2 * 4096
    /\ processed[4][2].path = "a" /\ processed[4][2].offset = 0

\* The ScanResults a run can produce.
Results == {ScanOf(p) : p \in Paths}

\* How many copies of the ScanResult r are between scan_file's return and
\* the end of the consumer's loop over it: with a worker, in the channel, or
\* with the consumer.
Count(r) ==
    Cardinality({w \in Workers : held[w] = r})
    + Cardinality({i \in 1..Len(chan) : chan[i] = r})
    + (IF cur = r THEN 1 ELSE 0)

\* C18. Exactly-once delivery: an entry the walk yields is scanned by one
\* worker, which gets the one copy of its ScanResult; a copy is neither lost
\* nor duplicated on its way through send and recv; the consumer lets go of
\* it only after the last of its blocks; and the process ends with no copy
\* left unconsumed.
C18_ExactlyOnce ==
    [][/\ \A r \in Results :
            Count(r)' - Count(r) =
                IF /\ pending # <<>> /\ pending' = Tail(pending) /\ held' # held
                   /\ r = ScanOf(Head(pending))
                THEN 1
                ELSE IF mainpc = "iter" /\ mainpc' = "recv" /\ cur = r
                THEN -1
                ELSE 0
       /\ (mainpc = "iter" /\ mainpc' = "recv") => number = Len(cur.block_hashes)
       /\ nrecv' # nrecv => (nrecv' = nrecv + 1 /\ cur = NoResult /\ cur' # NoResult)
       /\ (mainpc # "exited" /\ mainpc' = "exited") => \A r \in Results : Count(r) = 0
      ]_vars

\* ScanResults that scan_file has returned and the consumer has not taken:
\* those queued in the channel and those a worker holds inside send.
Produced == Len(chan) + Cardinality({w \in Workers : held[w] # NoResult})

\* C19 as stated. Memory bound: the ScanResults produced and not yet taken
\* by the consumer never number more than the channel capacity.
C19_MemoryBoundAsStated == Produced <= args.dedup_queue

\* C19, amended. Memory bound: the channel never queues more than its
\* capacity, and the ScanResults produced and not yet taken never number
\* more than the capacity plus the number of threads that run scan_file,
\* each of which holds the one result it is sending.
C19_MemoryBound ==
    /\ Len(chan) <= args.dedup_queue
    /\ Produced <= args.dedup_queue + Cardinality(Workers)

\* The amended bound is met: the channel is full and every worker holds a
\* result, so more results are pending than the capacity.
C19_Witness ==
    /\ Produced = args.dedup_queue + Cardinality(Workers)
    /\ Produced > args.dedup_queue
    /\ Len(chan) = args.dedup_queue /\ args.dedup_queue > 0

\* C20. No send on a closed channel: whenever a worker is inside send the
\* receiver is alive, so no send(...).unwrap() panics, and the receiver is
\* dropped only when every sender has been dropped.
C20_NoSendOnClosed ==
    /\ \A w \in Workers : wpc[w] = "send" => rxAlive
    /\ \A w \in Workers : wpc[w] # "panicked"
    /\ ~rxAlive => ~txAlive

============================================================================
